---- MODULE Spec2Model ----
(***************************************************************************)
(* printGZHeader.c: walk a file of concatenated gzip members, print each   *)
(* member's header fields and the byte positions where it begins and ends. *)
(*                                                                         *)
(* The program is modelled statement block by statement block (variable pc *)
(* is the position in main / get_header_for_zstream).  The FILE object is  *)
(* modelled by its content, position and eof/error indicators.  zlib's     *)
(* inflate is modelled as the resumable state machine it is: the gzip      *)
(* header is parsed byte for byte as RFC 1952 lays it out; the DEFLATE     *)
(* body is abstracted: a body byte v > 0 decodes to v output bytes, the    *)
(* byte 0 ends the final block; the trailer is CRC32 + ISIZE, where the    *)
(* CRC is abstracted to a function of the output length.                   *)
(***************************************************************************)
EXTENDS Integers, Sequences, FiniteSets, TLC

(* ---------------------------------------------------------------------- *)
(* Bounds of the model                                                     *)
(* ---------------------------------------------------------------------- *)
MaxMembers == 2

\* the main loop runs at most once per byte of the file; no file of the
\* model needs more than MaxMembers + 1 iterations, the guard below caps it
MaxIter == MaxMembers + 2

(* ---------------------------------------------------------------------- *)
(* Program and zlib constants                                              *)
(* ---------------------------------------------------------------------- *)
OUTBUF_MULT == 5
STR_LEN == 512

Z_OK == 0
Z_STREAM_END == 1
Z_ERRNO == 0 - 1
Z_STREAM_ERROR == 0 - 2
Z_DATA_ERROR == 0 - 3
Z_MEM_ERROR == 0 - 4
Z_BUF_ERROR == 0 - 5
Z_NO_FLUSH == 0
Z_BLOCK == 5

Min(a, b) == IF a < b THEN a ELSE b

(* ---------------------------------------------------------------------- *)
(* gzip members (RFC 1952) as byte sequences                               *)
(* ---------------------------------------------------------------------- *)
LE2(n) == << n % 256, (n \div 256) % 256 >>

LE4(n) == << n % 256, (n \div 256) % 256, (n \div 65536) % 256,
             (n \div 16777216) % 256 >>

\* a little-endian field; a 4-byte field is read as the signed 32-bit number
\* that printf's %d shows
FromLE(b) ==
  IF Len(b) = 2 THEN b[1] + 256 * b[2]
  ELSE b[1] + 256 * b[2] + 65536 * b[3]
         + 16777216 * (IF b[4] >= 128 THEN b[4] - 256 ELSE b[4])

\* abstraction of crc32 over the decompressed data: a function of its length
Crc(n) == (n * 31 + 7) % 65536

\* abstraction of the header crc16: a function of the header bytes before it
Hcrc(n) == (n * 7 + 3) % 65536

FHCRC == 2
FEXTRA == 4
FNAME == 8
FCOMMENT == 16

HasFlag(flg, bit) == (flg \div bit) % 2 = 1

\* a name of n bytes, none of them zero
NameOf(n) == [i \in 1..n |-> 97 + (i % 3)]

RECURSIVE SumSeq(_)
SumSeq(s) == IF s = << >> THEN 0 ELSE Head(s) + SumSeq(Tail(s))

\* the shapes of member the files of the model are made of:
\* flg: the FLG byte, name/comment/extra: the optional fields (without their
\* terminators), body: the compressed blocks (each byte v decodes to v bytes)
Shapes ==
  { [flg |-> 0,     mtime |-> 0,          name |-> << >>, comment |-> << >>,
     extra |-> << >>, body |-> <<3>>],
    [flg |-> FNAME, mtime |-> 1420848000, name |-> <<97, 46>>, comment |-> << >>,
     extra |-> << >>, body |-> <<2, 4>>],
    [flg |-> FNAME, mtime |-> 1420848000, name |-> <<122>>, comment |-> << >>,
     extra |-> << >>, body |-> <<255, 255>>],
    [flg |-> FNAME + FCOMMENT + FEXTRA + FHCRC, mtime |-> 7,
     name |-> NameOf(STR_LEN - 2), comment |-> <<99, 99>>, extra |-> <<1, 2, 3>>,
     body |-> <<1>>],
    [flg |-> FNAME, mtime |-> 1, name |-> NameOf(STR_LEN - 1), comment |-> << >>,
     extra |-> << >>, body |-> <<1>>],
    [flg |-> FNAME, mtime |-> 1, name |-> NameOf(STR_LEN + 1), comment |-> << >>,
     extra |-> << >>, body |-> <<1>>] }

HeaderBytes(sh) ==
  LET fixed == <<31, 139, 8, sh.flg>> \o LE4(sh.mtime) \o <<0, 3>>
      ex == IF HasFlag(sh.flg, FEXTRA) THEN LE2(Len(sh.extra)) \o sh.extra ELSE << >>
      nm == IF HasFlag(sh.flg, FNAME) THEN sh.name \o <<0>> ELSE << >>
      cm == IF HasFlag(sh.flg, FCOMMENT) THEN sh.comment \o <<0>> ELSE << >>
      pre == fixed \o ex \o nm \o cm
  IN  IF HasFlag(sh.flg, FHCRC) THEN pre \o LE2(Hcrc(Len(pre))) ELSE pre

MemberBytes(sh) ==
  HeaderBytes(sh) \o sh.body \o <<0>>
    \o LE4(Crc(SumSeq(sh.body))) \o LE4(SumSeq(sh.body))

RECURSIVE Concat(_)
Concat(ms) == IF ms = << >> THEN << >> ELSE MemberBytes(Head(ms)) \o Concat(Tail(ms))

RECURSIVE StartOf(_, _)
\* 0-based offset of member k in the concatenation of ms
StartOf(ms, k) == IF k = 1 THEN 0 ELSE StartOf(ms, k - 1) + Len(MemberBytes(ms[k - 1]))

(* ---------------------------------------------------------------------- *)
(* zlib: the inflate engine on a gzip-wrapped stream                       *)
(* ---------------------------------------------------------------------- *)
\* a machine is [zs, zhead, zname]: the z_stream, and the gz_header and name
\* buffer the stream points to after inflateGetHeader

\* NEEDBITS: move up to n - Len(hold) bytes of input into the hold register
Pull(m, buf, n) ==
  LET k == Min(n - Len(m.zs.hold), m.zs.avail_in)
  IN  [m EXCEPT !.zs.hold = @ \o SubSeq(buf, m.zs.next_in, m.zs.next_in + k - 1),
                !.zs.next_in = @ + k,
                !.zs.avail_in = @ - k,
                !.zs.total_in = @ + k]

GoTo(m, mode) == [m EXCEPT !.zs.mode = mode, !.zs.hold = << >>]

\* the number of input bytes a zero-terminated field takes from the input
\* at hand: up to and including the first zero byte, or all of it
FieldTake(m, buf) ==
  IF \A i \in 0..(m.zs.avail_in - 1) : buf[m.zs.next_in + i] # 0
  THEN [n |-> m.zs.avail_in, ended |-> FALSE]
  ELSE [n |-> 1 + (CHOOSE i \in 0..(m.zs.avail_in - 1) :
                     /\ buf[m.zs.next_in + i] = 0
                     /\ \A j \in 0..(i - 1) : buf[m.zs.next_in + j] # 0),
        ended |-> TRUE]

Consume(m, n) ==
  [m EXCEPT !.zs.next_in = @ + n, !.zs.avail_in = @ - n, !.zs.total_in = @ + n]

\* state NAME of inflate(): bytes are copied to head->name while fewer than
\* name_max were copied; the terminating zero is copied only if it fits
NameRoom(m) ==
  IF m.zs.gethdr /\ m.zhead.name # "NULL" /\ m.zhead.name_max > m.zs.length
  THEN m.zhead.name_max - m.zs.length ELSE 0

CopyName(m, buf, n) ==
  CHOOSE r \in {[m EXCEPT !.zname = [k \in 1..STR_LEN |->
                                       IF k > m.zs.length /\ k <= m.zs.length + c
                                       THEN buf[m.zs.next_in + (k - m.zs.length) - 1]
                                       ELSE m.zname[k]],
                          !.zs.length = @ + c] : c \in {Min(n, NameRoom(m))}} : TRUE

AfterFlags(m) ==
  IF HasFlag(m.zs.flags, FEXTRA) THEN GoTo(m, "EXLEN") ELSE GoTo(m, "NAME")

RECURSIVE inflate_run(_, _, _)

\* one state of inflate()'s state machine and, through inflate_run, the states
\* that follow it in the same call
inflate_mode(m, buf, flush) ==
  CASE m.zs.mode = "HEAD" ->
         LET p == Pull(m, buf, 2) IN
         IF Len(p.zs.hold) < 2 THEN p
         ELSE IF p.zs.hold = <<31, 139>> THEN inflate_run(GoTo(p, "FLAGS"), buf, flush)
         ELSE GoTo(p, "BAD")
    [] m.zs.mode = "FLAGS" ->
         LET p == Pull(m, buf, 2) IN
         IF Len(p.zs.hold) < 2 THEN p
         ELSE IF p.zs.hold[1] # 8 \/ p.zs.hold[2] >= 32 THEN GoTo(p, "BAD")
         ELSE inflate_run(GoTo([p EXCEPT !.zs.flags = p.zs.hold[2]], "TIME"), buf, flush)
    [] m.zs.mode = "TIME" ->
         LET p == Pull(m, buf, 4) IN
         IF Len(p.zs.hold) < 4 THEN p
         ELSE inflate_run(GoTo(IF p.zs.gethdr
                               THEN [p EXCEPT !.zhead.time = FromLE(p.zs.hold)]
                               ELSE p, "OS"), buf, flush)
    [] m.zs.mode = "OS" ->
         LET p == Pull(m, buf, 2) IN
         IF Len(p.zs.hold) < 2 THEN p
         ELSE inflate_run(AfterFlags(p), buf, flush)
    [] m.zs.mode = "EXLEN" ->
         LET p == Pull(m, buf, 2) IN
         IF Len(p.zs.hold) < 2 THEN p
         ELSE inflate_run(GoTo([p EXCEPT !.zs.length = FromLE(p.zs.hold)], "EXTRA"),
                          buf, flush)
    [] m.zs.mode = "EXTRA" ->
         LET k == Min(m.zs.length, m.zs.avail_in)
             p == [Consume(m, k) EXCEPT !.zs.length = @ - k]
         IN  IF p.zs.length > 0 THEN p ELSE inflate_run(GoTo(p, "NAME"), buf, flush)
    [] m.zs.mode = "NAME" ->
         IF HasFlag(m.zs.flags, FNAME)
         THEN IF m.zs.avail_in = 0 THEN m
              ELSE CHOOSE r \in
                     {IF t.ended
                      THEN inflate_run(GoTo([Consume(CopyName(m, buf, t.n), t.n)
                                               EXCEPT !.zs.length = 0], "COMMENT"),
                                       buf, flush)
                      ELSE Consume(CopyName(m, buf, t.n), t.n)
                        : t \in {FieldTake(m, buf)}} : TRUE
         ELSE inflate_run(GoTo(IF m.zs.gethdr
                               THEN [m EXCEPT !.zhead.name = "NULL", !.zs.length = 0]
                               ELSE [m EXCEPT !.zs.length = 0], "COMMENT"), buf, flush)
    [] m.zs.mode = "COMMENT" ->
         IF HasFlag(m.zs.flags, FCOMMENT)
         THEN IF m.zs.avail_in = 0 THEN m
              ELSE CHOOSE r \in
                     {IF t.ended THEN inflate_run(GoTo(Consume(m, t.n), "HCRC"), buf, flush)
                      ELSE Consume(m, t.n) : t \in {FieldTake(m, buf)}} : TRUE
         ELSE inflate_run(GoTo(m, "HCRC"), buf, flush)
    [] m.zs.mode = "HCRC" ->
         IF HasFlag(m.zs.flags, FHCRC)
         THEN LET want == Hcrc(m.zs.total_in - Len(m.zs.hold))
                  p == Pull(m, buf, 2)
              IN  IF Len(p.zs.hold) < 2 THEN p
                  ELSE IF FromLE(p.zs.hold) # want THEN GoTo(p, "BAD")
                  ELSE inflate_run(GoTo(IF p.zs.gethdr THEN [p EXCEPT !.zhead.done = 1]
                                        ELSE p, "TYPE"), buf, flush)
         ELSE inflate_run(GoTo(IF m.zs.gethdr THEN [m EXCEPT !.zhead.done = 1] ELSE m,
                               "TYPE"), buf, flush)
    [] m.zs.mode = "TYPE" ->
         IF flush = Z_BLOCK THEN m
         ELSE IF m.zs.avail_in = 0 THEN m
         ELSE LET v == buf[m.zs.next_in]
                  p == Consume(m, 1)
              IN  IF v = 0 THEN inflate_run(GoTo(p, "CHECK"), buf, flush)
                  ELSE inflate_run(GoTo([p EXCEPT !.zs.length = v], "RUN"), buf, flush)
    [] m.zs.mode = "RUN" ->
         LET k == Min(m.zs.length, m.zs.avail_out)
             p == [m EXCEPT !.zs.length = @ - k, !.zs.avail_out = @ - k,
                            !.zs.total_out = @ + k]
         IN  IF p.zs.length > 0 THEN p ELSE inflate_run(GoTo(p, "TYPE"), buf, flush)
    [] m.zs.mode = "CHECK" ->
         LET p == Pull(m, buf, 4) IN
         IF Len(p.zs.hold) < 4 THEN p
         ELSE IF p.zs.hold # LE4(Crc(p.zs.total_out)) THEN GoTo(p, "BAD")
         ELSE inflate_run(GoTo(p, "LENGTH"), buf, flush)
    [] m.zs.mode = "LENGTH" ->
         LET p == Pull(m, buf, 4) IN
         IF Len(p.zs.hold) < 4 THEN p
         ELSE IF p.zs.hold # LE4(p.zs.total_out) THEN GoTo(p, "BAD")
         ELSE GoTo(p, "DONE")
    [] OTHER -> m

\* the for (;;) switch (state->mode) loop of inflate(): runs the machine from
\* m until it needs input or output space, reaches a stopping point, or ends
\* (the machine a call starts from is evaluated once, then bound to x)
inflate_run(m, buf, flush) == CHOOSE r \in {inflate_mode(x, buf, flush) : x \in {m}} : TRUE

\* the return code of inflate(): Z_STREAM_END at the end of the member,
\* Z_DATA_ERROR on corrupt input, Z_BUF_ERROR when the call made no progress
\* (no input consumed, no output produced), Z_OK otherwise
inflate_ret(before, after) ==
  CASE after.zs.mode = "BAD" -> Z_DATA_ERROR
    [] after.zs.mode = "DONE" -> Z_STREAM_END
    [] after.zs.total_in = before.zs.total_in
         /\ after.zs.total_out = before.zs.total_out -> Z_BUF_ERROR
    [] OTHER -> Z_OK

\* inflate(&zs, flush): the machine after the call and the return code
inflate(m, buf, flush) ==
  IF ~m.zs.live \/ (m.zs.next_in = 0 /\ m.zs.avail_in # 0)
  THEN [m |-> m, ret |-> Z_STREAM_ERROR]
  ELSE CHOOSE r \in {[m |-> a, ret |-> inflate_ret(m, a)]
                        : a \in {inflate_run(m, buf, flush)}} : TRUE

\* inflateGetHeader(&zs, &zhead): registers the header record, done = 0
inflateGetHeader(m) ==
  IF ~m.zs.live THEN [m |-> m, ret |-> Z_STREAM_ERROR]
  ELSE [m |-> [m EXCEPT !.zs.gethdr = TRUE, !.zhead.done = 0], ret |-> Z_OK]

\* inflateInit2(&zs, 16+MAX_WBITS) when the allocation of the state succeeds
inflateInit2(m) ==
  [m EXCEPT !.zs.live = TRUE, !.zs.mode = "HEAD", !.zs.hold = << >>,
            !.zs.flags = 0, !.zs.length = 0, !.zs.gethdr = FALSE,
            !.zs.total_in = 0, !.zs.total_out = 0]

\* inflateEnd(&zs): frees the state
inflateEndMut(m) == m

inflateEnd(m) == [m EXCEPT !.zs.live = FALSE]


(* ---------------------------------------------------------------------- *)
(* The input files of the model                                            *)
(* ---------------------------------------------------------------------- *)
MemberSeqs == UNION {[1..n -> Shapes] : n \in 0..MaxMembers}

\* what may have happened to a valid file: nothing, cut after t bytes, or
\* one byte overwritten
Damages(b) ==
  {[kind |-> "none", at |-> 0]}
    \cup {[kind |-> "trunc", at |-> t] : t \in {1, 5, 11, Len(b) - 3} \cap 1..(Len(b) - 1)}
    \cup {[kind |-> "corrupt", at |-> i] : i \in {4, Len(b)} \cap 1..Len(b)}

Damaged(b, d) ==
  CASE d.kind = "trunc" -> SubSeq(b, 1, d.at)
    [] d.kind = "corrupt" -> [b EXCEPT ![d.at] = 255 - @]
    [] OTHER -> b

\* values an uninitialized local may hold
StackGarbage == {0, 88}

\* what lies behind zname on the stack when a read runs off its end
StackTails == {<< >>, <<89>>}

(* ---------------------------------------------------------------------- *)
(* State                                                                   *)
(* ---------------------------------------------------------------------- *)
VARIABLES
  layout,     \* the members the file was made of (not program state)
  damage,     \* what was done to the file afterwards (not program state)
  file,       \* content of the file behind f
  fpos,       \* position indicator of f
  f_eof,      \* end-of-file indicator of f
  f_err,      \* error indicator of f
  filesize,   \* main: filesize
  fposa,      \* main: fposa
  fposb,      \* main: fposb
  loopctr,    \* main: loopctr
  ret,        \* main: ret (its value before the first call is never used here)
  heap,       \* the live allocations: inbuf, outbuf
  inbuf,      \* get_header_for_zstream: content of inbuf
  zs,         \* get_header_for_zstream: zs (with zlib's internal state)
  zhead,      \* get_header_for_zstream: zhead
  zname,      \* get_header_for_zstream: zname
  gret,       \* get_header_for_zstream: ret
  fposreset,  \* get_header_for_zstream: fposreset
  pc,         \* position in the program
  out,        \* the lines written to stdout and stderr so far
  exitcode,   \* the process's exit status once it ended
  failure,    \* history: the check of the program that ended the process
  accepted    \* history: fposa and ret at each fseek of main

vars == <<layout, damage, file, fpos, f_eof, f_err, filesize, fposa, fposb,
          loopctr, ret, heap, inbuf, zs, zhead, zname, gret, fposreset, pc,
          out, exitcode, failure, accepted>>

ghost == <<layout, damage, file, filesize>>
mainvars == <<fposa, fposb, loopctr, ret, accepted>>
alive == <<out, exitcode, failure>>
localvars == <<heap, inbuf, zs, zhead, zname, gret, fposreset>>
filevars == <<fpos, f_eof, f_err>>

Line(k, n, v) == [k |-> k, n |-> n, v |-> v]

Mach == [zs |-> zs, zhead |-> zhead, zname |-> zname]

\* locals of get_header_for_zstream before the call and after the return
NoZs == [live |-> FALSE, next_in |-> 0, avail_in |-> 0, avail_out |-> 0,
         total_in |-> 0, total_out |-> 0, mode |-> "NONE", hold |-> << >>,
         flags |-> 0, length |-> 0, gethdr |-> FALSE]

NoZhead == [time |-> 0, name |-> "NULL", name_max |-> 0, done |-> 0]

\* exit(code) after a message on stderr
Die(check, msg, code) ==
  /\ out' = Append(out, Line("stderr", loopctr, msg))
  /\ exitcode' = code
  /\ failure' = check
  /\ pc' = "exited"

\* fread(inbuf, 1, count, f) on a file without I/O error: the bytes read, the
\* new position; the end-of-file indicator is set when the read comes short
fread(count) ==
  LET n == Min(count, Len(file) - fpos)
  IN  [data |-> SubSeq(file, fpos + 1, fpos + n),
       n |-> n,
       pos |-> fpos + n,
       eof |-> f_eof \/ n < count]

(* ---------------------------------------------------------------------- *)
(* main                                                                    *)
(* ---------------------------------------------------------------------- *)
Init ==
  /\ layout \in MemberSeqs
  /\ damage \in Damages(Concat(layout))
  /\ file = Damaged(Concat(layout), damage)
  /\ fpos = 0
  /\ f_eof = FALSE
  /\ f_err = FALSE
  /\ filesize = Len(file)
  /\ fposa = 0
  /\ fposb = 0
  /\ loopctr = 1
  /\ ret = 0
  /\ heap = {}
  /\ inbuf = << >>
  /\ zs = NoZs
  /\ zhead = NoZhead
  /\ zname = << >>
  /\ gret = 0
  /\ fposreset = 0
  /\ pc = "m_while"
  /\ out = << >>
  /\ exitcode = 0
  /\ failure = "none"
  /\ accepted = << >>

\* while ( !feof(f) && fposb!=filesize )
LoopCond == ~f_eof /\ fposb # filesize

M_While ==
  /\ pc = "m_while"
  /\ pc' = IF LoopCond THEN "m_begin" ELSE "m_close"
  /\ UNCHANGED <<ghost, mainvars, localvars, filevars, alive>>

\* fposa = ftell(f); the two printf; call of get_header_for_zstream
M_Begin ==
  /\ pc = "m_begin"
  /\ loopctr <= MaxIter
  /\ fposa' = fpos
  /\ out' = out \o << Line("sep", loopctr, 0), Line("begin", loopctr, fpos) >>
  /\ pc' = "g_init"
  /\ UNCHANGED <<ghost, fposb, loopctr, ret, accepted, localvars, filevars, exitcode, failure>>

\* fseek(f,(fposa+ret),SEEK_SET)
SeekTargetRelative == fpos + ret

SeekTargetStay == fposa

SeekTarget == fposa + ret

\* the position printed as the end of the member
EndPrintedMut(pos) == pos

EndPrinted(pos) == pos - 1

\* fseek; fposb = ftell(f); the two printf; loopctr++
M_Seek ==
  /\ pc = "m_seek"
  /\ fpos' = SeekTarget
  /\ f_eof' = FALSE
  /\ fposb' = SeekTarget
  /\ out' = out \o << Line("end", loopctr, EndPrinted(SeekTarget)),
                      Line("sep", loopctr, 0) >>
  /\ loopctr' = loopctr + 1
  /\ accepted' = Append(accepted, [start |-> fposa, consumed |-> ret])
  /\ pc' = "m_while"
  /\ UNCHANGED <<ghost, fposa, ret, localvars, f_err, exitcode, failure>>

\* fclose(f); return ret (ret is uninitialized when the loop never ran: the
\* value read is then any value)
M_Close ==
  /\ pc = "m_close"
  /\ pc' = "done"
  /\ exitcode' \in (IF loopctr = 1 THEN StackGarbage ELSE {ret})
  /\ UNCHANGED <<ghost, mainvars, localvars, filevars, out, failure>>

(* ---------------------------------------------------------------------- *)
(* get_header_for_zstream                                                  *)
(* ---------------------------------------------------------------------- *)
\* the two malloc, the setup of zs, inflateInit2 and its check
G_Init ==
  /\ pc = "g_init"
  /\ \E g \in StackGarbage, ok \in BOOLEAN :
       LET z0 == [NoZs EXCEPT !.avail_out = OUTBUF_MULT * filesize,
                              !.flags = g, !.length = g]
           m0 == [zs |-> z0,
                  zhead |-> [time |-> g, name |-> "NULL", name_max |-> g, done |-> g],
                  zname |-> [k \in 1..STR_LEN |-> g]]
       IN  /\ heap' = {"inbuf", "outbuf"}
           /\ inbuf' = << >>
           /\ zhead' = m0.zhead
           /\ zname' = m0.zname
           /\ fposreset' = 0
           /\ IF ok
              THEN /\ zs' = inflateInit2(m0).zs
                   /\ gret' = Z_OK
                   /\ pc' = "g_gethdr"
                   /\ UNCHANGED alive
              ELSE /\ zs' = z0
                   /\ gret' = Z_MEM_ERROR
                   /\ Die("init", "inflateInit2 returned error", Z_MEM_ERROR)
  /\ UNCHANGED <<ghost, mainvars, filevars>>

\* inflateGetHeader and its check; name_max, comm_max, extra_max, name
G_GetHeader ==
  /\ pc = "g_gethdr"
  /\ \E r \in {inflateGetHeader(Mach)} :
         /\ gret' = r.ret
         /\ zs' = r.m.zs
         /\ IF r.ret # Z_OK
            THEN /\ Die("gethdr", "inflateGetHeader returned error", r.ret)
                 /\ zhead' = r.m.zhead
            ELSE /\ zhead' = [r.m.zhead EXCEPT !.name_max = STR_LEN - 1,
                                               !.name = "zname"]
                 /\ pc' = "g_read1"
                 /\ UNCHANGED alive
  /\ UNCHANGED <<ghost, mainvars, filevars, heap, inbuf, zname, fposreset>>

\* if (zs.avail_in == 0) after the first fread
EmptyRead(n) == n = 0

\* zs.avail_in = fread(...); the ferror and the no-data checks; zs.next_in
G_Read1 ==
  /\ pc = "g_read1"
  /\ \E ioerr \in BOOLEAN :
       IF ioerr
       THEN /\ f_err' = TRUE
            /\ zs' = [zs EXCEPT !.avail_in = 0]
            /\ gret' = Z_ERRNO
            /\ Die("io", "ERROR: Error reading file", Z_ERRNO)
            /\ UNCHANGED <<fpos, f_eof, inbuf>>
       ELSE \E r \in {fread(filesize)} :
                /\ inbuf' = r.data
                /\ fpos' = r.pos
                /\ f_eof' = r.eof
                /\ f_err' = f_err
                /\ gret' = gret
                /\ IF EmptyRead(r.n)
                   THEN /\ zs' = [zs EXCEPT !.avail_in = r.n]
                        /\ Die("empty", "ERROR: Issue reading file (no data)", Z_DATA_ERROR)
                   ELSE /\ zs' = [zs EXCEPT !.avail_in = r.n, !.next_in = 1]
                        /\ pc' = "g_inflate1"
                        /\ UNCHANGED alive
  /\ UNCHANGED <<ghost, mainvars, heap, zhead, zname, fposreset>>

\* if (ret != Z_OK) after inflate(&zs, Z_BLOCK)
HeaderFails(r) == r # Z_OK

\* ret = inflate(&zs, Z_BLOCK) and its check; fposreset
G_Inflate1 ==
  /\ pc = "g_inflate1"
  /\ \E r \in {inflate(Mach, inbuf, Z_BLOCK)} :
         /\ gret' = r.ret
         /\ zs' = r.m.zs
         /\ zhead' = r.m.zhead
         /\ zname' = r.m.zname
         /\ IF HeaderFails(r.ret)
            THEN /\ Die("header", "inflate returned error", r.ret)
                 /\ UNCHANGED fposreset
            ELSE /\ fposreset' = filesize - r.m.zs.avail_in
                 /\ pc' = "g_print"
                 /\ UNCHANGED alive
  /\ UNCHANGED <<ghost, mainvars, filevars, heap, inbuf>>

\* what printf's %s shows of zhead.name: "(null)" for a null pointer, else the
\* bytes up to the first zero; when zname holds no zero the read runs off the
\* end of the array
NameShown(tail) ==
  IF zhead.name = "NULL" THEN [null |-> TRUE, s |-> << >>]
  ELSE [null |-> FALSE,
        s |-> IF \A k \in 1..STR_LEN : zname[k] # 0 THEN zname \o tail
              ELSE SubSeq(zname, 1,
                          (CHOOSE k \in 1..STR_LEN :
                             zname[k] = 0 /\ \A j \in 1..(k - 1) : zname[j] # 0) - 1)]

\* the printf of the header fields
G_Print ==
  /\ pc = "g_print"
  /\ \E tail \in StackTails :
       out' = out \o << Line("header", loopctr, 0),
                        Line("time", loopctr, zhead.time),
                        Line("name", loopctr, NameShown(tail)),
                        Line("done", loopctr, zhead.done) >>
  /\ pc' = "g_loop_inflate"
  /\ UNCHANGED <<ghost, mainvars, filevars, localvars, exitcode, failure>>

\* if (ret < 0) in the do-while loop
BodyFailsMut(r) == FALSE

BodyFails(r) == r < 0

\* ret = inflate(&zs, Z_NO_FLUSH) and its check
G_LoopInflate ==
  /\ pc = "g_loop_inflate"
  /\ \E r \in {inflate(Mach, inbuf, Z_NO_FLUSH)} :
         /\ gret' = r.ret
         /\ zs' = r.m.zs
         /\ zhead' = r.m.zhead
         /\ zname' = r.m.zname
         /\ IF BodyFails(r.ret)
            THEN Die("body", "inflate returned error", r.ret)
            ELSE /\ pc' = "g_loop_read"
                 /\ UNCHANGED alive
  /\ UNCHANGED <<ghost, mainvars, filevars, heap, inbuf, fposreset>>

\* the rest of the loop body: fread, the ferror check, the break on no data,
\* the reset of the buffers, and the loop condition
G_LoopRead ==
  /\ pc = "g_loop_read"
  /\ \E ioerr \in BOOLEAN :
       IF ioerr
       THEN /\ f_err' = TRUE
            /\ zs' = [zs EXCEPT !.avail_in = 0]
            /\ Die("io", "ERROR: Error reading file", Z_ERRNO)
            /\ UNCHANGED <<fpos, f_eof, inbuf>>
       ELSE \E r \in {fread(filesize)} :
                /\ fpos' = r.pos
                /\ f_eof' = r.eof
                /\ f_err' = f_err
                /\ UNCHANGED alive
                /\ IF r.n = 0
                   THEN /\ zs' = [zs EXCEPT !.avail_in = 0]
                        /\ inbuf' = inbuf
                        /\ pc' = "g_end"
                   ELSE /\ zs' = [zs EXCEPT !.avail_in = r.n, !.next_in = 1,
                                            !.avail_out = OUTBUF_MULT * filesize]
                        /\ inbuf' = r.data
                        /\ pc' = IF gret # Z_STREAM_END THEN "g_loop_inflate"
                                 ELSE "g_end"
  /\ UNCHANGED <<ghost, mainvars, heap, zhead, zname, gret, fposreset>>

\* fposreset=zs.total_in; return fposreset
ReturnValueMut == zs.avail_in

ReturnValue == zs.total_in

\* the last printf, inflateEnd, the two free, and the return to main
G_End ==
  /\ pc = "g_end"
  /\ out' = Append(out, Line("size", loopctr, zs.total_out))
  /\ zs' = inflateEnd(Mach).zs
  /\ heap' = {}
  /\ fposreset' = ReturnValue
  /\ ret' = ReturnValue
  /\ inbuf' = << >>
  /\ zhead' = NoZhead
  /\ zname' = << >>
  /\ pc' = "m_seek"
  /\ UNCHANGED <<ghost, fposa, fposb, loopctr, accepted, filevars, gret, exitcode, failure>>

Next ==
  \/ M_While
  \/ M_Begin
  \/ G_Init
  \/ G_GetHeader
  \/ G_Read1
  \/ G_Inflate1
  \/ G_Print
  \/ G_LoopInflate
  \/ G_LoopRead
  \/ G_End
  \/ M_Seek
  \/ M_Close

Spec == Init /\ [][Next]_vars

\* the program is one sequential process that is always scheduled
LiveSpec == Init /\ [][Next]_vars /\ WF_vars(Next)

(* ---------------------------------------------------------------------- *)
(* Vocabulary of the properties                                            *)
(* ---------------------------------------------------------------------- *)
Valid == damage.kind = "none"

NMembers == Len(layout)

MemberLen(k) == Len(MemberBytes(layout[k]))

MemberStart(k) == StartOf(layout, k)

Ended == pc \in {"done", "exited"}

InDecoder == pc \in {"g_init", "g_gethdr", "g_read1", "g_inflate1", "g_print",
                     "g_loop_inflate", "g_loop_read", "g_end"}

Lines(k) == {i \in 1..Len(out) : out[i].k = k}

\* the environment failed: allocation in inflateInit2, or an I/O error
EnvFailure == failure \in {"init", "io"}

TypeOK ==
  /\ pc \in {"m_while", "m_begin", "m_seek", "m_close", "done", "exited"}
             \cup {"g_init", "g_gethdr", "g_read1", "g_inflate1", "g_print",
                   "g_loop_inflate", "g_loop_read", "g_end"}
  /\ fpos \in 0..filesize
  /\ loopctr \in 1..MaxIter
  /\ failure \in {"none", "init", "gethdr", "io", "empty", "header", "body"}
  /\ heap \subseteq {"inbuf", "outbuf"}

\* the guard of M_Begin on loopctr never decides anything
CapNotReached == loopctr <= MaxIter

\* the line of kind k printed for member n, if there is one
LineOf(k, n) == {i \in Lines(k) : out[i].n = n}

Last(q) == q[Len(q)]

(* ---------------------------------------------------------------------- *)
(* Properties                                                              *)
(* ---------------------------------------------------------------------- *)

\* C1: a valid file of N >= 1 members, read without a failure of the
\* environment, ends with exactly N members accepted, numbered 1..N in order,
\* whose ranges [start, start + consumed) are non-empty, begin at 0, are
\* contiguous and end at the file's length.
C1_MembersCoverFile ==
  (Valid /\ NMembers >= 1 /\ Ended /\ ~EnvFailure) =>
     /\ pc = "done"
     /\ Len(accepted) = NMembers
     /\ \A k \in 1..Len(accepted) :
          /\ LineOf("begin", k) # {} /\ LineOf("end", k) # {}
          /\ accepted[k].consumed > 0
          /\ accepted[k].start =
               (IF k = 1 THEN 0 ELSE accepted[k - 1].start + accepted[k - 1].consumed)
     /\ Last(accepted).start + Last(accepted).consumed = filesize

\* C2 (as claimed): for a valid single-member file the lines printed for
\* member 1 show the start 0 and the end fileLength.
C2_PrintedEndIsFileLength ==
  (Valid /\ NMembers = 1) =>
     /\ \A i \in LineOf("begin", 1) : out[i].v = 0
     /\ \A i \in LineOf("end", 1) : out[i].v = filesize

\* C2 (amended): for a valid single-member file the lines printed for member 1
\* show the start 0 and, as the end, start + consumed - 1: the position of the
\* last byte consumed, which lies inside the file (at most fileLength - 1).
C2_PrintedEndIsLastByte ==
  (Valid /\ NMembers = 1) =>
     /\ \A i \in LineOf("begin", 1) : out[i].v = 0
     /\ \A i \in LineOf("end", 1) :
          /\ out[i].v = accepted[1].start + accepted[1].consumed - 1
          /\ out[i].v <= filesize - 1

C2_Witness ==
  /\ Valid /\ NMembers = 1 /\ pc = "done"
  /\ \E i \in LineOf("end", 1) : out[i].v = filesize - 1

\* C3: when get_header_for_zstream returns for a member of a valid file that
\* starts at the position the call began at, the value returned is the length
\* of that member (header, body and trailer).
C3_ReturnsMemberLength ==
  (Valid /\ pc = "m_seek") =>
     \A k \in 1..NMembers : fposa = MemberStart(k) => ret = MemberLen(k)

\* C4: the program never goes on past a failed check (inflateInit2,
\* inflateGetHeader, the two fread, the two inflate); a message on stderr is
\* the last thing written, the process has ended with a non-zero status, and
\* nothing changes after it ended: no member is decoded, reported or skipped.
C4_PastNoFailedCheck ==
  /\ pc \in {"g_gethdr", "g_read1", "g_print"} => gret = Z_OK
  /\ pc = "g_gethdr" => zs.live
  /\ pc = "g_inflate1" => ~f_err /\ zs.avail_in > 0
  /\ pc = "g_loop_read" => gret >= 0
  /\ pc \in {"g_end", "m_seek", "m_while", "m_begin", "m_close", "done"} => ~f_err
  /\ \A i \in Lines("stderr") : i = Len(out) /\ pc = "exited" /\ exitcode # 0
  /\ (failure # "none") = (pc = "exited")

C4_ErrorsAreFatal == []C4_PastNoFailedCheck /\ [][pc # "exited"]_vars

C4_Witness ==
  /\ pc = "exited" /\ failure = "header" /\ exitcode = Z_DATA_ERROR
  /\ Len(accepted) = 1

\* C5: a file cut inside the fixed 10-byte header of its first member ends in
\* the failure of the header inflate or of the no-data check, and no header
\* line (time, name, done) of member 1 is printed.
C5_TruncatedHeaderNotReported ==
  (damage.kind = "trunc" /\ damage.at < 10) =>
     /\ LineOf("header", 1) \cup LineOf("time", 1) \cup LineOf("name", 1)
          \cup LineOf("done", 1) = {}
     /\ (Ended /\ ~EnvFailure) => failure \in {"header", "empty"}

C7_ReleasedOnEveryPath ==
  (Ended \/ pc = "g_init") => (~zs.live /\ heap = {})

\* C7 (amended): the engine instance and the buffers are released when
\* get_header_for_zstream returns, so everywhere in main, before the next
\* member's decoding and at the normal end; a fatal exit leaves the buffers
\* allocated, and the engine instance too unless inflateInit2 itself failed.
C7_ReleasedOnReturn ==
  /\ (pc \in {"m_while", "m_begin", "m_seek", "m_close", "done", "g_init"})
       => (~zs.live /\ heap = {})
  /\ pc = "exited" => /\ heap = {"inbuf", "outbuf"}
                      /\ zs.live = (failure # "init")

C7_Witness ==
  pc = "m_seek" /\ zs.total_in > 0 /\ ~zs.live /\ heap = {} /\ loopctr = 2

\* C8: the name printed for a member of a valid file decoded from its start
\* is absent when FNAME is unset, the stored name when it is at most
\* STR_LEN - 1 bytes long, and its first STR_LEN - 1 bytes otherwise.
C8_NamePrinted ==
  Valid =>
    \A n \in 1..NMembers : \A i \in LineOf("name", n) :
      (\E b \in LineOf("begin", n) : out[b].v = MemberStart(n)) =>
         IF ~HasFlag(layout[n].flg, FNAME) THEN out[i].v.null
         ELSE /\ ~out[i].v.null
              /\ out[i].v.s =
                   SubSeq(layout[n].name, 1, Min(Len(layout[n].name), STR_LEN - 1))

\* C9: the program ends, normally or by a fatal exit, and every fseek of main
\* moves the cursor forward.
C9_Terminates == <>Ended /\ [][pc = "m_seek" => fposb' > fposb]_vars

C9_Witness == pc = "done" /\ Len(accepted) = 2 /\ ~Valid

\* C10: the scan cursor fposb changes only in the fseek step of main; while a
\* member is decoded and at the fseek step it equals the captured start
\* fposa; after the fseek it equals start + consumed, and so does the position
\* of the file, however far the decoder's fread moved that position.
C10_CursorState ==
  /\ (InDecoder \/ pc = "m_seek") =>
        /\ fposb = fposa
        /\ \E i \in LineOf("begin", loopctr) : out[i].v = fposa
  /\ pc = "g_init" => fpos = fposa
  /\ (pc \in {"m_while", "m_begin", "m_close"} /\ accepted # << >>) =>
        /\ fposb = Last(accepted).start + Last(accepted).consumed
        /\ fpos = fposb

C10_CursorMovedOnlyBySeek ==
  []C10_CursorState /\ [][(fposb' # fposb \/ fposa' # fposa) => pc \in {"m_seek", "m_begin"}]_vars

C10_Witness ==
  /\ pc = "m_while" /\ Len(accepted) = 1
  /\ fposb = accepted[1].consumed /\ fposb < filesize

====
